---- MODULE Spec2Model ----
(***************************************************************************)
(* A model of project_inspector.py: one run of main(), from argument       *)
(* parsing to process exit.  The file system, the two external tools       *)
(* (repomix, llm) and the clock are the environment; their outcomes are    *)
(* chosen nondeterministically where the code calls them.  Text is kept as *)
(* real strings, so that joins, prints and writes can be compared.         *)
(***************************************************************************)
EXTENDS Integers, Sequences, FiniteSets, TLC

\* ---------------------------------------------------------------- bounds

\* Longest recommendations array the analyzer returns in the model.
MaxRecs == 2

\* ------------------------------------------------------- program constants

\* "=" * 80 and "-" * 80 in format_report.
BannerWidth == 80

\* temp_file in extract_context, temp_input_file in analyze_context.
TempOutput == "temp_output.md"
TempInput == "temp_input.md"

\* ------------------------------------------------------------ environment

\* Python's None, where a string is expected, and a path that names no file.
NoneStr == "<None>"
NoFile == "<no file>"

\* The process's working directory, against which abspath resolves.
Cwd == "/work"

\* Values of the positional argument, of --output, and what a stale file holds.
Targets == {"proj", "/srv/app/"}
OutputPath == "report.txt"
OutputArgs == {NoneStr, OutputPath}
StaleText == "stale"

\* What repomix may write to its output file ("" is an empty snapshot).
Contexts == {"", "def f(): pass"}

\* Values of datetime.now().strftime('%Y-%m-%d %H:%M:%S').
Clock == {"2024-05-01 10:00:00", "2024-05-01 10:00:01"}

\* ----------------------------------------------------------------- strings

RECURSIVE Rep(_, _)
\* s * n
Rep(s, n) == IF n <= 0 THEN "" ELSE s \o Rep(s, n - 1)

RECURSIVE Join(_, _)
\* sep.join(seq)
Join(sep, seq) ==
  IF Len(seq) = 0 THEN ""
  ELSE IF Len(seq) = 1 THEN seq[1]
  ELSE seq[1] \o sep \o Join(sep, Tail(seq))

\* print(s): the text followed by the line terminator.
PrintLine(s) == s \o "\n"

RECURSIVE StripSlashes(_)
\* normpath, as far as the targets need it: trailing separators are dropped.
StripSlashes(p) ==
  IF Len(p) > 1 /\ SubSeq(p, Len(p), Len(p)) = "/"
  THEN StripSlashes(SubSeq(p, 1, Len(p) - 1))
  ELSE p

\* os.path.abspath(p)
AbsPath(p) ==
  IF Len(p) > 0 /\ SubSeq(p, 1, 1) = "/"
  THEN StripSlashes(p)
  ELSE StripSlashes(Cwd \o "/" \o p)

RECURSIVE LastSlash(_, _)
LastSlash(p, i) ==
  IF i = 0 THEN 0
  ELSE IF SubSeq(p, i, i) = "/" THEN i
  ELSE LastSlash(p, i - 1)

\* os.path.basename(p): what follows the last separator.
BaseName(p) == SubSeq(p, LastSlash(p, Len(p)) + 1, Len(p))

\* ------------------------------------------------------------- JSON values

Summaries == {"S"}
RecTexts == {"A", "B"}
RecLists == UNION { [1..n -> RecTexts] : n \in 0..MaxRecs }

\* A JSON object with no members, and the parts an object is put together from.
EmptyObj == [k \in {} |-> ""]
SumParts == {EmptyObj} \cup { "project_summary" :> s : s \in Summaries }
RecParts == {EmptyObj} \cup { "recommendations" :> r : r \in RecLists }
NoteParts == {EmptyObj, "note" :> "n"}

\* The JSON objects the analyzer may print: any subset of the keys.
Objects ==
  { [kind |-> "object", val |-> a @@ b @@ c] :
      a \in SumParts, b \in RecParts, c \in NoteParts }

PyNone == [kind |-> "none", val |-> <<>>]
Invalid == [kind |-> "invalid", val |-> <<>>]

\* result.stdout of llm: not JSON at all, or the text of a JSON value.
LlmOutputs ==
  Objects \cup
  { Invalid,
    [kind |-> "null", val |-> <<>>],
    [kind |-> "array", val |-> <<>>],
    [kind |-> "array", val |-> <<"x">>],
    [kind |-> "number", val |-> <<>>] }

\* json.loads: JSON null becomes None, every other value itself.
JsonLoads(doc) == IF doc.kind = "null" THEN PyNone ELSE doc

\* Python truthiness of a parsed value (the test of `if not analysis`).
TruthyValue(v) ==
  CASE v.kind = "none" -> FALSE
    [] v.kind = "object" -> DOMAIN v.val # {}
    [] v.kind = "array" -> Len(v.val) > 0
    [] OTHER -> TRUE

\* Python truthiness of Optional[str] (the test of `if not context`).
TruthyStr(s) == s # NoneStr /\ s # ""

\* ------------------------------------------------------------ format_report

\* Whether the parsed value is a dict with the key.
HasKey(v, key) == v.kind = "object" /\ \E k \in DOMAIN v.val : k = key

\* `key in analysis` for a dict (its keys) or a list (its elements).
Contains(analysis, key) ==
  CASE analysis.kind = "object" -> HasKey(analysis, key)
    [] analysis.kind = "array" ->
         \E i \in 1..Len(analysis.val) : analysis.val[i] = key
    [] OTHER -> FALSE

\* `key in analysis` raises TypeError for a value that is no container.
IsContainer(analysis) == analysis.kind \in {"object", "array"}

\* The header block of the report.
HeaderLines(directory, now) ==
  << Rep("=", BannerWidth),
     "PROJECT INSPECTOR REPORT - " \o BaseName(AbsPath(directory)),
     "Generated on: " \o now,
     Rep("=", BannerWidth),
     "" >>

NoSummary == "No project summary available."
NoRecommendations == "No recommendations available."

\* The PROJECT OVERVIEW block.
OverviewLines(analysis) ==
  << "PROJECT OVERVIEW", Rep("-", BannerWidth) >>
  \o (IF Contains(analysis, "project_summary")
      THEN << analysis.val["project_summary"] >>
      ELSE << NoSummary >>)
  \o << "" >>

\* The FILE STATISTICS block.
StatisticsLines ==
  << "FILE STATISTICS", Rep("-", BannerWidth),
     "Context extracted with repomix", "" >>

\* enumerate(recs) without its start of 1: the items are numbered from 0.
NumberedItems_FromZero(recs) ==
  [i \in 1..Len(recs) |-> ToString(i - 1) \o ". " \o recs[i]]

\* for i, rec in enumerate(recs, 1): f"{i}. {rec}"
NumberedItems(recs) ==
  [i \in 1..Len(recs) |-> ToString(i) \o ". " \o recs[i]]

\* format_report without the else branch of its recommendations test.
RecommendationItems_NoPlaceholder(analysis) ==
  IF Contains(analysis, "recommendations")
  THEN NumberedItems(analysis.val["recommendations"])
  ELSE << >>

\* The lines between the RECOMMENDATIONS separator and the closing blank line.
RecommendationItems(analysis) ==
  IF Contains(analysis, "recommendations")
  THEN NumberedItems(analysis.val["recommendations"])
  ELSE << NoRecommendations >>

\* The RECOMMENDATIONS block and the closing banner.
RecommendationLines(analysis) ==
  << "RECOMMENDATIONS", Rep("-", BannerWidth) >>
  \o RecommendationItems(analysis)
  \o << "", Rep("=", BannerWidth) >>

\* The list `report` that format_report builds.
ReportList(directory, analysis, now) ==
  HeaderLines(directory, now) \o OverviewLines(analysis)
  \o StatisticsLines \o RecommendationLines(analysis)

\* format_report's result: "\n".join(report).  context is not read.
FormatReport(directory, context, analysis, now) ==
  Join("\n", ReportList(directory, analysis, now))

\* -------------------------------------------------------------------- state

VARIABLES
  directory,     \* args.directory
  dirKind,       \* what the path names: "missing", "file" or "dir"
  output,        \* args.output (NoneStr when --output is not given)
  verbose,       \* args.verbose
  installed,     \* the external tools present on the system
  pc,            \* the position of the run in main and the function it called
  exitCode,      \* the process's exit status; -1 while it runs
  stdout,        \* the text written to standard output
  stderr,        \* the messages written to the diagnostic stream, in order
  fs,            \* the files of the working directory: name -> text or NoFile
  calls,         \* the external tools that were started, in order
  created,       \* the files this run created or overwrote
  swallowed,     \* the files whose failed removal a finally block passed over
  ret,           \* extract_context's pending return value
  aret,          \* analyze_context's pending return value
  exc,           \* the exception propagating out of the function, or "none"
  context,       \* main's context
  llmOut,        \* result.stdout of the llm process
  analysis,      \* main's analysis
  now,           \* the timestamp format_report read
  report,        \* main's report
  stages,        \* the stages main has entered, in order
  failed         \* the stage that failed, or "none"

envVars == << directory, dirKind, output, verbose, installed >>
vars == << directory, dirKind, output, verbose, installed, pc, exitCode, stdout,
           stderr, fs, calls, created, swallowed, ret, aret, exc, context,
           llmOut, analysis, now, report, stages, failed >>

Files == {TempOutput, TempInput, OutputPath}
Tools == {"repomix", "llm"}

Init ==
  /\ directory \in Targets
  /\ dirKind \in {"missing", "file", "dir"}
  /\ output \in OutputArgs
  /\ verbose \in BOOLEAN
  /\ installed \in SUBSET Tools
  /\ pc = "start"
  /\ exitCode = -1
  /\ stdout = ""
  /\ stderr = << >>
  /\ \E a, b \in {NoFile, StaleText} :
       fs = [f \in Files |-> IF f = TempOutput THEN a
                             ELSE IF f = TempInput THEN b ELSE NoFile]
  /\ calls = << >>
  /\ created = {}
  /\ swallowed = {}
  /\ ret = NoneStr
  /\ aret = PyNone
  /\ exc = "none"
  /\ context = NoneStr
  /\ llmOut = Invalid
  /\ analysis = PyNone
  /\ now = ""
  /\ report = NoneStr
  /\ stages = << >>
  /\ failed = "none"

\* ------------------------------------------------------------------ messages

NotFoundMsg(tool) ==
  "Error: '" \o tool \o "' command not found. Please install it first."
\* str(e) of a CalledProcessError, and e.stderr.
CalledProcessText(tool) ==
  "Command '" \o tool \o "' returned non-zero exit status 1."
ToolStderr(tool) == tool \o ": failed"
OSErrorText(file) == "[Errno 13] Permission denied: '" \o file \o "'"
Traceback(e) == "Traceback (most recent call last): " \o e

RepomixCmd(dir) == << "repomix", "-o", TempOutput, "--style", "plain", dir >>
LlmPrompt ==
  "Analyze this codebase and provide: 1) A project_summary describing what the code does, 2) A list of recommendations for improvements. Format your response as JSON with keys \"project_summary\" and \"recommendations\" (an array)."
LlmCmd == << "llm", "prompt", LlmPrompt >>

\* if verbose: print(f"Running: {' '.join(cmd)}")
VerboseRunning(out, cmd) ==
  IF verbose THEN out \o PrintLine("Running: " \o Join(" ", cmd)) ELSE out

\* The handler of CalledProcessError: the error, and e.stderr when verbose.
ToolFailure(err, prefix, tool) ==
  err \o << prefix \o CalledProcessText(tool) >>
      \o (IF verbose THEN << "stderr: " \o ToolStderr(tool) >> ELSE << >>)

\* ------------------------------------------------------------ check_directory

\* check_directory without its os.path.isdir test.
CheckDirectoryResult_ExistsOnly(kind) ==
  IF kind = "missing" THEN "not_exists" ELSE "ok"

\* check_directory's result for what the path names.
CheckDirectoryResult(kind) ==
  CASE kind = "missing" -> "not_exists"
    [] kind = "file" -> "not_dir"
    [] OTHER -> "ok"

\* main, up to the call of extract_context: validate the target.
CheckDirectory ==
  /\ pc = "start"
  /\ stages' = Append(stages, "validate")
  /\ LET r == CheckDirectoryResult(dirKind) IN
       IF r = "ok"
       THEN /\ stdout' = stdout
                 \o PrintLine("Analyzing project in '" \o directory \o "'...")
            /\ pc' = "ex_run"
            /\ UNCHANGED << stderr, exitCode, failed >>
       ELSE /\ stderr' = Append(stderr,
                 IF r = "not_exists"
                 THEN "Error: Directory '" \o directory \o "' does not exist."
                 ELSE "Error: '" \o directory \o "' is not a directory.")
            /\ failed' = "validate"
            /\ exitCode' = 1
            /\ pc' = "done"
            /\ UNCHANGED stdout
  /\ UNCHANGED << envVars, fs, calls, created, swallowed, ret, aret, exc,
                  context, llmOut, analysis, now, report >>

\* ------------------------------------------------------------ extract_context

\* subprocess.run(["repomix", ...]) and the handlers of what it raises.
RunRepomix ==
  /\ pc = "ex_run"
  /\ stages' = Append(stages, "extract")
  /\ stdout' = VerboseRunning(stdout, RepomixCmd(directory))
  /\ IF "repomix" \notin installed
     THEN /\ stderr' = Append(stderr, NotFoundMsg("repomix"))
          /\ ret' = NoneStr
          /\ pc' = "ex_finally"
          /\ UNCHANGED << fs, calls, created >>
     ELSE /\ calls' = Append(calls, "repomix")
          /\ \E wrote \in {NoFile} \cup Contexts, status \in {0, 1} :
               /\ IF wrote = NoFile
                  THEN UNCHANGED << fs, created >>
                  ELSE /\ fs' = [fs EXCEPT ![TempOutput] = wrote]
                       /\ created' = created \cup {TempOutput}
               /\ IF status = 0
                  THEN /\ pc' = "ex_read"
                       /\ UNCHANGED << stderr, ret >>
                  ELSE /\ stderr' = ToolFailure(stderr,
                                       "Error running repomix: ", "repomix")
                       /\ ret' = NoneStr
                       /\ pc' = "ex_finally"
  /\ UNCHANGED << envVars, exitCode, swallowed, aret, exc, context, llmOut,
                  analysis, now, report, failed >>

\* with open(temp_file) as f: content = f.read(), and its handlers.
ReadTemp ==
  /\ pc = "ex_read"
  /\ IF fs[TempOutput] = NoFile
     THEN /\ stderr' = Append(stderr, NotFoundMsg("repomix"))
          /\ ret' = NoneStr
          /\ pc' = "ex_finally"
          /\ UNCHANGED exc
     ELSE \E r \in {"ok", "ioerror"}
                   \cup (IF fs[TempOutput] = "" THEN {} ELSE {"decode"}) :
            CASE r = "ok" ->
                   /\ ret' = fs[TempOutput]
                   /\ pc' = "ex_remove"
                   /\ UNCHANGED << stderr, exc >>
              [] r = "ioerror" ->
                   /\ stderr' = Append(stderr,
                        "Error reading temporary file: " \o "[Errno 5] Input/output error")
                   /\ ret' = NoneStr
                   /\ pc' = "ex_finally"
                   /\ UNCHANGED exc
              [] OTHER ->
                   /\ exc' = "UnicodeDecodeError"
                   /\ pc' = "ex_finally"
                   /\ UNCHANGED << stderr, ret >>
  /\ UNCHANGED << envVars, exitCode, stdout, fs, calls, created, swallowed,
                  aret, context, llmOut, analysis, now, report, stages, failed >>

\* os.remove(temp_file); return content, and the handler of a failed removal.
RemoveTemp ==
  /\ pc = "ex_remove"
  /\ \E ok \in BOOLEAN :
       IF ok
       THEN /\ fs' = [fs EXCEPT ![TempOutput] = NoFile]
            /\ UNCHANGED << stderr, ret >>
       ELSE /\ stderr' = Append(stderr,
                 "Error reading temporary file: " \o OSErrorText(TempOutput))
            /\ ret' = NoneStr
            /\ UNCHANGED fs
  /\ pc' = "ex_finally"
  /\ UNCHANGED << envVars, exitCode, stdout, calls, created, swallowed, aret, exc, context,
                  llmOut, analysis, now, report, stages, failed >>

\* The functions without their finally block: nothing is removed.
Cleanup_NoFinally(files, file, ok) == files

\* The finally block of both functions: if os.path.exists(file), os.remove(file),
\* a failure of which is passed over.  ok is whether the removal succeeds.
Cleanup(files, file, ok) ==
  IF files[file] # NoFile /\ ok THEN [files EXCEPT ![file] = NoFile] ELSE files

\* The files whose failed removal was passed over, after the finally block.
CleanupFailures(files, file, ok) ==
  IF files[file] # NoFile /\ ~ok THEN swallowed \cup {file} ELSE swallowed

\* extract_context's finally block, then its return to main (or the exception
\* leaving main, which ends the process with a traceback and status 1).
ExtractFinally ==
  /\ pc = "ex_finally"
  /\ \E ok \in BOOLEAN :
       /\ fs' = Cleanup(fs, TempOutput, ok)
       /\ swallowed' = CleanupFailures(fs, TempOutput, ok)
  /\ IF exc # "none"
     THEN /\ stderr' = Append(stderr, Traceback(exc))
          /\ exitCode' = 1
          /\ failed' = "extract"
          /\ pc' = "done"
          /\ UNCHANGED context
     ELSE /\ context' = ret
          /\ failed' = IF ret = NoneStr THEN "extract" ELSE failed
          /\ pc' = "main_ctx"
          /\ UNCHANGED << stderr, exitCode >>
  /\ UNCHANGED << envVars, stdout, calls, created, ret, aret, exc, llmOut,
                  analysis, now, report, stages >>

\* ----------------------------------------------------------------------- main

\* main without its test of extract_context's result.
AbortOnContext_Never(c) == FALSE

\* main's test after extract_context: `if not context`.
AbortOnContext(c) == ~TruthyStr(c)

\* if not context: sys.exit(1); otherwise the two progress lines.
MainCheckContext ==
  /\ pc = "main_ctx"
  /\ IF AbortOnContext(context)
     THEN /\ exitCode' = 1
          /\ pc' = "done"
          /\ UNCHANGED stdout
     ELSE /\ stdout' = stdout \o PrintLine("Context extraction complete.")
                              \o PrintLine("Analyzing project structure...")
          /\ pc' = "an_write"
          /\ UNCHANGED exitCode
  /\ UNCHANGED << envVars, stderr, fs, calls, created, swallowed, ret, aret,
                  exc, context, llmOut, analysis, now, report, stages, failed >>

\* ------------------------------------------------------------ analyze_context

\* with open(temp_input_file, 'w') as f: f.write(context), and the IOError
\* handler: the open may fail, or the write after the file was created.
WriteTempInput ==
  /\ pc = "an_write"
  /\ stages' = Append(stages, "analyze")
  /\ \E r \in {"ok", "open_fails", "write_fails"} :
       CASE r = "ok" ->
              /\ fs' = [fs EXCEPT ![TempInput] = context]
              /\ created' = created \cup {TempInput}
              /\ pc' = "an_run"
              /\ UNCHANGED << stderr, aret >>
         [] r = "open_fails" ->
              /\ stderr' = Append(stderr,
                   "Error with temporary file: " \o OSErrorText(TempInput))
              /\ aret' = PyNone
              /\ pc' = "an_finally"
              /\ UNCHANGED << fs, created >>
         [] OTHER ->
              /\ fs' = [fs EXCEPT ![TempInput] = ""]
              /\ created' = created \cup {TempInput}
              /\ stderr' = Append(stderr,
                   "Error with temporary file: " \o "[Errno 28] No space left on device")
              /\ aret' = PyNone
              /\ pc' = "an_finally"
  /\ UNCHANGED << envVars, exitCode, stdout, calls, swallowed, ret, exc,
                  context, llmOut, analysis, now, report, failed >>

\* subprocess.run(["llm", "prompt", ...], stdin=f) and the handlers of what it
\* raises.
RunLlm ==
  /\ pc = "an_run"
  /\ stdout' = VerboseRunning(stdout, LlmCmd)
  /\ IF "llm" \notin installed
     THEN /\ stderr' = Append(stderr, NotFoundMsg("llm"))
          /\ aret' = PyNone
          /\ pc' = "an_finally"
          /\ UNCHANGED << calls, llmOut >>
     ELSE /\ calls' = Append(calls, "llm")
          /\ \E status \in {0, 1} :
               IF status = 0
               THEN /\ llmOut' \in LlmOutputs
                    /\ pc' = "an_parse"
                    /\ UNCHANGED << stderr, aret >>
               ELSE /\ stderr' = ToolFailure(stderr,
                                    "Error running LLM analysis: ", "llm")
                    /\ aret' = PyNone
                    /\ pc' = "an_finally"
                    /\ UNCHANGED llmOut
  /\ UNCHANGED << envVars, exitCode, fs, created, swallowed, ret, exc,
                  context, analysis, now, report, stages, failed >>

\* return json.loads(result.stdout), and the JSONDecodeError handler.
ParseOutput ==
  /\ pc = "an_parse"
  /\ IF llmOut.kind = "invalid"
     THEN /\ stderr' = Append(stderr, "Error: Failed to parse LLM output as JSON")
          /\ aret' = PyNone
     ELSE /\ aret' = JsonLoads(llmOut)
          /\ UNCHANGED stderr
  /\ pc' = "an_finally"
  /\ UNCHANGED << envVars, exitCode, stdout, fs, calls, created, swallowed,
                  ret, exc, context, llmOut, analysis, now, report, stages,
                  failed >>

\* analyze_context's finally block, then its return to main.
AnalyzeFinally ==
  /\ pc = "an_finally"
  /\ \E ok \in BOOLEAN :
       /\ fs' = Cleanup(fs, TempInput, ok)
       /\ swallowed' = CleanupFailures(fs, TempInput, ok)
  /\ analysis' = aret
  /\ failed' = IF aret.kind = "none" THEN "analyze" ELSE failed
  /\ pc' = "main_analysis"
  /\ UNCHANGED << envVars, exitCode, stdout, stderr, calls, created, ret, aret,
                  exc, context, llmOut, now, report, stages >>

\* main without its test of analyze_context's result.
AbortOnAnalysis_Never(a) == FALSE

\* main's test after analyze_context: `if not analysis`.
AbortOnAnalysis(a) == ~TruthyValue(a)

\* if not analysis: sys.exit(1)
MainCheckAnalysis ==
  /\ pc = "main_analysis"
  /\ IF AbortOnAnalysis(analysis)
     THEN /\ exitCode' = 1
          /\ pc' = "done"
     ELSE /\ pc' = "format"
          /\ UNCHANGED exitCode
  /\ UNCHANGED << envVars, stdout, stderr, fs, calls, created, swallowed,
                  ret, aret, exc, context, llmOut, analysis, now, report,
                  stages, failed >>

\* report = format_report(args.directory, context, analysis); a value that is
\* no container makes `in` raise TypeError, which leaves main.
Format ==
  /\ pc = "format"
  /\ stages' = Append(stages, "format")
  /\ now' \in Clock
  /\ IF IsContainer(analysis)
     THEN /\ report' = FormatReport(directory, context, analysis, now')
          /\ pc' = "emit"
          /\ UNCHANGED << stderr, exitCode, exc, failed >>
     ELSE /\ exc' = "TypeError"
          /\ stderr' = Append(stderr, Traceback("TypeError"))
          /\ exitCode' = 1
          /\ failed' = "format"
          /\ pc' = "done"
          /\ UNCHANGED report
  /\ UNCHANGED << envVars, stdout, fs, calls, created, swallowed, ret, aret,
                  context, llmOut, analysis >>

\* A write that ends the report with a line terminator, as print does.
FileText_WithNewline(r) == r \o "\n"

\* What f.write(report) puts in the output file.
FileText(r) == r

\* What print("\n" + report) puts on standard output.
ConsoleText(r) == PrintLine("\n" \o r)

\* The output branch of main: write the file or print the report, then the
\* closing line; a failed write is reported and ends the run with status 1.
Emit ==
  /\ pc = "emit"
  /\ stages' = Append(stages, "emit")
  /\ IF output # NoneStr
     THEN \E r \in {"ok", "open_fails", "write_fails"} :
            CASE r = "ok" ->
                   /\ fs' = [fs EXCEPT ![output] = FileText(report)]
                   /\ created' = created \cup {output}
                   /\ stdout' = stdout
                        \o PrintLine("Report saved to '" \o output \o "'")
                        \o PrintLine("Analysis complete!")
                   /\ exitCode' = 0
                   /\ UNCHANGED << stderr, failed >>
              [] r = "open_fails" ->
                   /\ stderr' = Append(stderr,
                        "Error writing to output file: " \o OSErrorText(output))
                   /\ exitCode' = 1
                   /\ failed' = "emit"
                   /\ UNCHANGED << fs, created, stdout >>
              [] OTHER ->
                   /\ fs' = [fs EXCEPT ![output] = ""]
                   /\ created' = created \cup {output}
                   /\ stderr' = Append(stderr,
                        "Error writing to output file: " \o "[Errno 28] No space left on device")
                   /\ exitCode' = 1
                   /\ failed' = "emit"
                   /\ UNCHANGED stdout
     ELSE /\ stdout' = stdout \o ConsoleText(report)
                              \o PrintLine("Analysis complete!")
          /\ exitCode' = 0
          /\ UNCHANGED << stderr, fs, created, failed >>
  /\ pc' = "done"
  /\ UNCHANGED << envVars, calls, swallowed, ret, aret, exc, context, llmOut,
                  analysis, now, report >>

Next ==
  \/ CheckDirectory
  \/ RunRepomix
  \/ ReadTemp
  \/ RemoveTemp
  \/ ExtractFinally
  \/ MainCheckContext
  \/ WriteTempInput
  \/ RunLlm
  \/ ParseOutput
  \/ AnalyzeFinally
  \/ MainCheckAnalysis
  \/ Format
  \/ Emit

Spec == Init /\ [][Next]_vars

\* ------------------------------------------------------------------- claims

StageOrder == << "validate", "extract", "analyze", "format", "emit" >>

IsPrefix(s, t) == Len(s) <= Len(t) /\ SubSeq(t, 1, Len(s)) = s

EndsWith(s, suffix) ==
  Len(suffix) <= Len(s) /\ SubSeq(s, Len(s) - Len(suffix) + 1, Len(s)) = suffix

StartsWith(s, prefix) ==
  Len(prefix) <= Len(s) /\ SubSeq(s, 1, Len(prefix)) = prefix

TempFiles == {TempOutput, TempInput}

\* The position of the first line break of s at or after start (0: none).
NextBreak(s, start) ==
  LET breaks == { i \in start..Len(s) : SubSeq(s, i, i) = "\n" } IN
    IF breaks = {} THEN 0
    ELSE CHOOSE i \in breaks : \A j \in breaks : i <= j

RECURSIVE SplitFrom(_, _)
SplitFrom(s, start) ==
  LET b == NextBreak(s, start) IN
    IF b = 0 THEN << SubSeq(s, start, Len(s)) >>
    ELSE << SubSeq(s, start, b - 1) >> \o SplitFrom(s, b + 1)

\* The lines of a text: s.split("\n").
Lines(s) == SplitFrom(s, 1)

\* The report reached its destination: the --output file holds it, or standard
\* output ends with it and the closing line.
ReportEmitted ==
  /\ report # NoneStr
  /\ IF output # NoneStr
     THEN fs[output] = report
     ELSE EndsWith(stdout, "\n" \o report \o "\n" \o "Analysis complete!\n")

\* C1: the stages are entered in the order validate, extract, analyze, format,
\* emit; once a stage has failed the next step of main is the exit with status
\* 1 and no further stage is entered; status 0 is reached only with all five
\* stages entered and the report emitted.
C1_PipelineOrder ==
  /\ [](/\ IsPrefix(stages, StageOrder)
        /\ (failed # "none" => stages # << >> /\ stages[Len(stages)] = failed)
        /\ (failed # "none" /\ pc = "done" => exitCode = 1)
        /\ (exitCode = 0 => stages = StageOrder /\ ReportEmitted))
  /\ [][failed # "none" => stages' = stages /\ exitCode' = 1 /\ pc' = "done"]_vars

\* A run in which the analyzer failed and main exited with status 1.
C1_Witness ==
  /\ pc = "done"
  /\ failed = "analyze"
  /\ exitCode = 1
  /\ stages = << "validate", "extract", "analyze" >>

\* C2: for a target that does not exist, and likewise for one that is a regular
\* file, the run ends with a non-zero status straight after validation: no
\* external tool was started and no file was created.
C2_InvalidTargetAborts ==
  dirKind \in {"missing", "file"} =>
    /\ calls = << >>
    /\ created = {}
    /\ pc \in {"start", "done"}
    /\ (pc = "done" => exitCode = 1 /\ Len(stderr) = 1 /\ stages = << "validate" >>)

\* A run on a regular file that has ended.
C2_Witness == dirKind = "file" /\ pc = "done" /\ exitCode = 1

\* Whether tool t was started.
Started(t) == \E i \in 1..Len(calls) : calls[i] = t

\* Whether message m is on the diagnostic stream.
Reported(m) == \E i \in 1..Len(stderr) : stderr[i] = m

\* C3: with repomix absent, extract_context reports the missing dependency on
\* the diagnostic stream and returns None, the run exits with status 1, and
\* llm is never started.
C3_MissingRepomix ==
  ("repomix" \notin installed /\ dirKind = "dir") =>
    /\ ~Started("llm")
    /\ ~Started("repomix")
    /\ (pc \notin {"start", "ex_run"} =>
          Reported(NotFoundMsg("repomix")) /\ ret = NoneStr /\ context = NoneStr)
    /\ pc \in {"start", "ex_run", "ex_finally", "main_ctx", "done"}
    /\ (pc = "done" => exitCode = 1)

\* A run on a directory, without repomix, that has ended.
C3_Witness ==
  /\ "repomix" \notin installed
  /\ "llm" \in installed
  /\ dirKind = "dir"
  /\ pc = "done"
  /\ stages = << "validate", "extract" >>

\* C4 as stated: when the run has ended, no temporary file it created exists.
C4_TempFilesRemoved ==
  pc = "done" => \A f \in TempFiles : f \in created => fs[f] = NoFile

\* C4, amended: when the run has ended, a temporary file it created exists
\* only if the os.remove of its finally block failed (which is passed over).
C4_TempFilesRemovedUnlessRemoveFails ==
  pc = "done" =>
    \A f \in TempFiles : (f \in created /\ fs[f] # NoFile) => f \in swallowed

\* A run that an unexpected exception ended, after repomix wrote its file, with
\* the file gone.
C4_Witness ==
  /\ pc = "done"
  /\ exc = "UnicodeDecodeError"
  /\ TempOutput \in created
  /\ fs[TempOutput] = NoFile

\* The position of the first line of L that equals x (0 when there is none).
IndexOf(L, x) ==
  IF \E i \in 1..Len(L) : L[i] = x
  THEN CHOOSE i \in 1..Len(L) : L[i] = x /\ \A j \in 1..(i - 1) : L[j] # x
  ELSE 0

\* The lines of the section headed h: those after the heading and its
\* separator, up to the next empty line.
SectionItems(L, h) ==
  LET first == IndexOf(L, h) + 2
      stop == CHOOSE e \in first..Len(L) :
                L[e] = "" /\ \A j \in first..(e - 1) : L[j] # ""
  IN SubSeq(L, first, stop - 1)

\* A line that starts like a numbered item: "<k>. ".
IsNumberedItem(line) ==
  \E k \in 0..9 : StartsWith(line, ToString(k) \o ". ")

\* A report has been rendered from a JSON object.
Rendered == report # NoneStr /\ analysis.kind = "object"

\* C5: for an analysis with the summary S and the recommendations r1..rn, n >= 1,
\* the line after the PROJECT OVERVIEW heading and its separator is S, and the
\* RECOMMENDATIONS section is exactly the lines "1. r1", ..., "n. rn", in order.
C5_SummaryAndNumberedList ==
  (/\ Rendered
   /\ HasKey(analysis, "project_summary")
   /\ HasKey(analysis, "recommendations")
   /\ Len(analysis.val["recommendations"]) >= 1) =>
    LET L == Lines(report)
        recs == analysis.val["recommendations"]
        items == SectionItems(L, "RECOMMENDATIONS")
        o == IndexOf(L, "PROJECT OVERVIEW")
    IN /\ o > 0
       /\ L[o + 1] = Rep("-", BannerWidth)
       /\ L[o + 2] = analysis.val["project_summary"]
       /\ SectionItems(L, "PROJECT OVERVIEW") = << analysis.val["project_summary"] >>
       /\ Len(items) = Len(recs)
       /\ \A k \in 1..Len(recs) : items[k] = ToString(k) \o ". " \o recs[k]

\* A report rendered from the summary S and the recommendations A, B.
C5_Witness ==
  /\ Rendered
  /\ pc = "done"
  /\ HasKey(analysis, "project_summary")
  /\ HasKey(analysis, "recommendations")
  /\ analysis.val["recommendations"] = << "A", "B" >>
  /\ SectionItems(Lines(report), "RECOMMENDATIONS") = << "1. A", "2. B" >>

\* C6: for a response without the recommendations field, the RECOMMENDATIONS
\* section is the placeholder line alone and no line of the report is a
\* numbered item.
C6_AbsentRecommendations ==
  (Rendered /\ ~HasKey(analysis, "recommendations")) =>
    LET L == Lines(report) IN
      /\ SectionItems(L, "RECOMMENDATIONS") = << "No recommendations available." >>
      /\ \A i \in 1..Len(L) : ~IsNumberedItem(L[i])

\* A report rendered from a response that carries only project_summary.
C6_Witness ==
  /\ Rendered
  /\ pc = "done"
  /\ exitCode = 0
  /\ HasKey(analysis, "project_summary")
  /\ ~HasKey(analysis, "recommendations")

\* C7 as stated: for a response whose recommendations list is empty, the
\* RECOMMENDATIONS section holds the placeholder line.
C7_EmptyRecommendations ==
  (/\ Rendered
   /\ HasKey(analysis, "recommendations")
   /\ Len(analysis.val["recommendations"]) = 0) =>
    SectionItems(Lines(report), "RECOMMENDATIONS")
      = << "No recommendations available." >>

\* C8 as stated: when llm printed a JSON object that lacks project_summary,
\* recommendations or both, a run whose output could be written exits with
\* status 0, having emitted a report in which each absent field is replaced by
\* its placeholder.
C8_AbsentFieldsTolerated ==
  (/\ pc = "done"
   /\ llmOut.kind = "object"
   /\ (~HasKey(llmOut, "project_summary") \/ ~HasKey(llmOut, "recommendations"))
   /\ failed # "emit") =>
    /\ exitCode = 0
    /\ ReportEmitted
    /\ (~HasKey(llmOut, "project_summary") =>
          SectionItems(Lines(report), "PROJECT OVERVIEW")
            = << "No project summary available." >>)
    /\ (~HasKey(llmOut, "recommendations") =>
          SectionItems(Lines(report), "RECOMMENDATIONS")
            = << "No recommendations available." >>)

\* C9 as stated: a run that ended with status 1 has written a diagnostic to the
\* error stream.
C9_AbortHasDiagnostic ==
  (pc = "done" /\ exitCode = 1) => Len(stderr) > 0

\* C10 as stated: what a run with --output wrote to the file is, byte for byte,
\* what the run without --output writes to standard output for the same report.
C10_FileEqualsConsole ==
  (pc = "done" /\ exitCode = 0 /\ output # NoneStr) =>
    fs[output] = ConsoleText(report)

\* C10, amended: the file holds exactly the text format_report returned; the
\* run without --output prints that same text with one line break before it
\* and one after it, followed by the closing line.
C10_FileIsReportConsoleFramesIt ==
  (pc = "done" /\ exitCode = 0) =>
    LET r == FormatReport(directory, context, analysis, now) IN
      IF output # NoneStr
      THEN /\ fs[output] = r
           /\ ~EndsWith(fs[output], "\n")
           /\ ConsoleText(r) = "\n" \o fs[output] \o "\n"
      ELSE /\ EndsWith(stdout, "\n" \o r \o "\n" \o "Analysis complete!\n")
           /\ fs[OutputPath] = NoFile

\* A run with --output that wrote its report.
C10_Witness ==
  /\ pc = "done"
  /\ exitCode = 0
  /\ output = OutputPath
  /\ fs[OutputPath] = report
  /\ Len(report) > 0

====
